---- MODULE Spec2Model ----
(***************************************************************************)
(* Task graph view of obsidian-tasks-graph.                                *)
(*                                                                         *)
(* Two versions of the view class are modelled over the same fields:       *)
(*   - the canvas view, src/TasksGraphView.ts (task limit, Policy B:       *)
(*     '#want' tasks and the tasks whose outlinks reach their block ids);  *)
(*   - the SVG view, src/unnamed/part_001 (Policy A: visibility filter by  *)
(*     completed / blocked / tags).  Its definitions end in "Svg".         *)
(*                                                                         *)
(* A document is a sequence of lines; a line is the record of what the     *)
(* regular expressions of collectTasks find in it (indentation, checklist  *)
(* prefix, status, tags, id marker, blocker markers) together with what    *)
(* the metadata cache reports for it (block id, links).                    *)
(***************************************************************************)
EXTENDS Integers, Sequences, FiniteSets, TLC

VARIABLES
    vault,           \* the documents: file index -> sequence of lines
    taskLimit,       \* this.taskLimit
    showCompleted,   \* this.showCompleted
    showBlocked,     \* this.showBlocked
    showWithoutTags, \* this.showWithoutTags
    selectedTags,    \* this.selectedTags
    allTags,         \* this.allTags
    data,            \* this.data = { nodes, links }
    scans,           \* the collectTasks activations suspended in `await read`
    scanned,         \* history: the task list of the last processTasks call
    doneLimit,       \* history: this.taskLimit when that call was made
    doneLatest,      \* history: that call was made by the newest scan started
    latestData,      \* history: this.data as left by the newest scan, once done
    applied,         \* history: what was done to the scanned list and its graph
    layout,          \* x, y, fx, fy of the node objects, by position in data.nodes
    pointer,         \* the mouse: buttons held, the drag and the pan gesture
    transform,       \* the zoom transform of the canvas / svg element
    watch,           \* the view's life cycle and its 'modify' subscription
    useDates,        \* this.useDates
    clock,           \* the machine's clock and time zone
    simulation       \* this.simulation: "none" (null), "running" or "stopped"

vars == <<vault, taskLimit, showCompleted, showBlocked, showWithoutTags,
          selectedTags, allTags, data, scans, scanned, doneLimit, doneLatest,
          latestData, applied, layout, pointer, transform, watch, useDates,
          clock, simulation>>

(***************************************************************************)
(* Bounds of the model.                                                    *)
(***************************************************************************)
MaxLines == 3
MaxInFlight == 2
\* How many times a scanned task list is processed or laid out.
MaxApplied == 3
\* How far a pan may move the view from the origin, in pixels.
MaxPan == 40
\* The markers of one line.
MaxMarkers == 3

(***************************************************************************)
(* The vault: getMarkdownFiles() returns the same two documents, in this   *)
(* order, on every call.                                                   *)
(***************************************************************************)
Paths == <<"a.md", "b.md">>
Files == 1..Len(Paths)

\* An optional value (null / undefined, or a value).
Null == <<>>
Some(x) == <<x>>

TaskLimitDefault == 500

(***************************************************************************)
(* Live update (setupFileWatch).  watch.fileEventRef tells whether         *)
(* this.fileEventRef holds a reference, watch.subscribed whether that      *)
(* reference is a subscription the vault still has, watch.subscriptions    *)
(* how many 'modify' subscriptions of this view the vault has, and         *)
(* watch.last, a history field, what the last 'modify' event did.          *)
(***************************************************************************)
\* The view as constructed: liveUpdate = true, fileEventRef = null.
Constructed ==
    [stage |-> "new", liveUpdate |-> TRUE, fileEventRef |-> FALSE,
     subscribed |-> FALSE, subscriptions |-> 0, last |-> Null, opening |-> FALSE]

\* this.app.vault.offref(this.fileEventRef), when fileEventRef is set.
Offref(w) ==
    IF w.fileEventRef /\ w.subscribed
    THEN [w EXCEPT !.subscribed = FALSE, !.subscriptions = @ - 1]
    ELSE w

\* this.fileEventRef = this.app.vault.on('modify', ...), when liveUpdate.
Subscribe(w) ==
    IF w.liveUpdate
    THEN [w EXCEPT !.fileEventRef = TRUE, !.subscribed = TRUE, !.subscriptions = @ + 1]
    ELSE w

\* setupFileWatch without the offref of the old reference.
setupFileWatchNoOffref(w) == Subscribe(w)

\* setupFileWatch()
setupFileWatch(w) == Subscribe(Offref(w))

(***************************************************************************)
(* Numbers of the view transform and of fitToView.  A number is a fraction *)
(* <<numerator, denominator>> in lowest terms with a positive denominator; *)
(* the arithmetic is exact where the code computes in doubles.             *)
(***************************************************************************)
Abs(n) == IF n < 0 THEN -n ELSE n

RECURSIVE Gcd(_, _)
Gcd(a, b) == IF b = 0 THEN a ELSE Gcd(b, a % b)

Frac(n, d) ==
    LET g == Gcd(Abs(n), Abs(d))
        sg == IF d < 0 THEN -1 ELSE 1
    IN  <<sg * (n \div g), sg * (d \div g)>>

Num(n) == <<n, 1>>
Plus(a, b) == Frac(a[1] * b[2] + b[1] * a[2], a[2] * b[2])
Minus(a, b) == Frac(a[1] * b[2] - b[1] * a[2], a[2] * b[2])
Times(a, b) == Frac(a[1] * b[1], a[2] * b[2])
Over(a, b) == Frac(a[1] * b[2], a[2] * b[1])
Leq(a, b) == a[1] * b[2] <= b[1] * a[2]
Max2(a, b) == IF Leq(a, b) THEN b ELSE a
Min2(a, b) == IF Leq(a, b) THEN a ELSE b

\* c.clientWidth and c.clientHeight of the container.
ViewW == 200
ViewH == 100

\* d3.zoomIdentity.
Identity == [k |-> Num(1), x |-> Num(0), y |-> Num(0)]

RECURSIVE Flatten(_)
Flatten(ss) == IF ss = <<>> THEN <<>> ELSE Head(ss) \o Flatten(Tail(ss))

\* The sequence of the indices i of s, in order, with P(i).
RECURSIVE FilterIdx(_, _, _)
FilterIdx(n, i, keep) ==
    IF i > n THEN <<>>
    ELSE (IF i \in keep THEN <<i>> ELSE <<>>) \o FilterIdx(n, i + 1, keep)

(***************************************************************************)
(* Marker extraction of collectTasks (lines 75-101), over the characters   *)
(* of a line.  The four emoji of the source are written as one ASCII       *)
(* character each: no regular expression of the source has the u flag, so  *)
(* an emoji is a fixed run of code units that matches only itself.         *)
(***************************************************************************)
IdMark == "@"
BlockerMark == "!"
ScheduledMark == "~"
StartMark == "^"

Char(s, i) == SubSeq(s, i, i)

\* \s and \d of the regular expressions.
IsSpace(c) == c \in {" ", "\t"}
IsDigit(c) == c \in {"0", "1", "2", "3", "4", "5", "6", "7", "8", "9"}

\* \s* from position i: the position after the run of whitespace.
RECURSIVE SkipSpaces(_, _)
SkipSpaces(s, i) ==
    IF i <= Len(s) /\ IsSpace(Char(s, i)) THEN SkipSpaces(s, i + 1) ELSE i

\* \S* from position i: the position after the run of non-whitespace.
RECURSIVE SkipWord(_, _)
SkipWord(s, i) ==
    IF i <= Len(s) /\ ~IsSpace(Char(s, i)) THEN SkipWord(s, i + 1) ELSE i

\* The position of the last character that is not whitespace, from i down.
RECURSIVE LastInk(_, _)
LastInk(s, i) ==
    IF i >= 1 /\ IsSpace(Char(s, i)) THEN LastInk(s, i - 1) ELSE i

trimStart(s) == SubSeq(s, SkipSpaces(s, 1), Len(s))
trim(s) == SubSeq(s, SkipSpaces(s, 1), LastInk(s, Len(s)))

LowerOf(c) ==
    CASE c = "A" -> "a" [] c = "B" -> "b" [] c = "C" -> "c" [] c = "D" -> "d"
      [] c = "E" -> "e" [] c = "F" -> "f" [] c = "G" -> "g" [] c = "H" -> "h"
      [] c = "I" -> "i" [] c = "J" -> "j" [] c = "K" -> "k" [] c = "L" -> "l"
      [] c = "M" -> "m" [] c = "N" -> "n" [] c = "O" -> "o" [] c = "P" -> "p"
      [] c = "Q" -> "q" [] c = "R" -> "r" [] c = "S" -> "s" [] c = "T" -> "t"
      [] c = "U" -> "u" [] c = "V" -> "v" [] c = "W" -> "w" [] c = "X" -> "x"
      [] c = "Y" -> "y" [] c = "Z" -> "z" [] OTHER -> c

RECURSIVE toLowerCase(_)
toLowerCase(s) ==
    IF s = "" THEN "" ELSE LowerOf(Char(s, 1)) \o toLowerCase(SubSeq(s, 2, Len(s)))

\* trimmed.match(/^- \[(.)\]\s*(.+)$/): Null, or <<status, content>>.  When
\* only whitespace follows the bracket, \s* gives its last character back
\* to (.+).
MatchChecklist(s) ==
    LET j == SkipSpaces(s, 6)
    IN  IF Len(s) < 6 \/ SubSeq(s, 1, 3) # "- [" \/ Char(s, 5) # "]" THEN Null
        ELSE IF j <= Len(s) THEN <<Char(s, 4), SubSeq(s, j, Len(s))>>
        ELSE <<Char(s, 4), Char(s, Len(s))>>

\* /#\S+/ at position i: the position after the match, or i when there is
\* none.
TagEnd(s, i) ==
    IF Char(s, i) = "#" /\ i < Len(s) /\ ~IsSpace(Char(s, i + 1))
    THEN SkipWord(s, i + 1) ELSE i

\* text.match(/#\S+/g) || []
RECURSIVE TagMatches(_, _)
TagMatches(s, i) ==
    IF i > Len(s) THEN <<>>
    ELSE IF TagEnd(s, i) > i
         THEN <<SubSeq(s, i, TagEnd(s, i) - 1)>> \o TagMatches(s, TagEnd(s, i))
         ELSE TagMatches(s, i + 1)

\* text.replace(/#\S+/g, '')
RECURSIVE StripTags(_, _)
StripTags(s, i) ==
    IF i > Len(s) THEN ""
    ELSE IF TagEnd(s, i) > i THEN StripTags(s, TagEnd(s, i))
         ELSE Char(s, i) \o StripTags(s, i + 1)

\* Array.from(new Set(tagMatches.map(t => t.toLowerCase()))) without the
\* lowercasing.
TagsOfCased(s) == {TagMatches(s, 1)[k] : k \in DOMAIN TagMatches(s, 1)}

\* Array.from(new Set(tagMatches.map(t => t.toLowerCase())))
TagsOf(s) == {toLowerCase(TagMatches(s, 1)[k]) : k \in DOMAIN TagMatches(s, 1)}

\* /<mark>\s*(\S+)/ at position i: Null, or <<payload, position after>>.
PayloadAt(s, i, mark) ==
    LET j == SkipSpaces(s, i + 1)
    IN  IF Char(s, i) = mark /\ j <= Len(s)
        THEN <<SubSeq(s, j, SkipWord(s, j) - 1), SkipWord(s, j)>>
        ELSE Null

\* text.match(/<id emoji>\s*(\S+)/): the first match's payload, or Null.
RECURSIVE IdMatch(_, _)
IdMatch(s, i) ==
    IF i > Len(s) THEN Null
    ELSE IF PayloadAt(s, i, IdMark) # Null THEN Some(PayloadAt(s, i, IdMark)[1])
         ELSE IdMatch(s, i + 1)

\* [...text.matchAll(/<blocker emoji>\s*(\S+)/g)].map(x => x[1])
RECURSIVE BlockerMatches(_, _)
BlockerMatches(s, i) ==
    IF i > Len(s) THEN <<>>
    ELSE LET m == PayloadAt(s, i, BlockerMark)
         IN  IF m # Null THEN <<m[1]>> \o BlockerMatches(s, m[2])
             ELSE BlockerMatches(s, i + 1)

\* text.replace(/<id emoji>\s*\S+|<blocker emoji>\s*\S+/g, '')
RECURSIVE StripIdAndBlockers(_, _)
StripIdAndBlockers(s, i) ==
    IF i > Len(s) THEN ""
    ELSE LET m == IF PayloadAt(s, i, IdMark) # Null THEN PayloadAt(s, i, IdMark)
                  ELSE PayloadAt(s, i, BlockerMark)
         IN  IF m # Null THEN StripIdAndBlockers(s, m[2])
             ELSE Char(s, i) \o StripIdAndBlockers(s, i + 1)

\* \d{4}-\d{2}-\d{2} at position j
IsDateAt(s, j) ==
    /\ j + 9 <= Len(s)
    /\ \A k \in {0, 1, 2, 3, 5, 6, 8, 9} : IsDigit(Char(s, j + k))
    /\ Char(s, j + 4) = "-"
    /\ Char(s, j + 7) = "-"

\* /<mark>\s*(\d{4}-\d{2}-\d{2})/ at position i: Null, or <<payload,
\* position after>>.
DateAt(s, i, mark) ==
    LET j == SkipSpaces(s, i + 1)
    IN  IF Char(s, i) = mark /\ IsDateAt(s, j)
        THEN <<SubSeq(s, j, j + 9), j + 10>>
        ELSE Null

\* text.match(/<mark>\s*(\d{4}-\d{2}-\d{2})/): the first match's payload.
RECURSIVE DateMatch(_, _, _)
DateMatch(s, i, mark) ==
    IF i > Len(s) THEN Null
    ELSE IF DateAt(s, i, mark) # Null THEN Some(DateAt(s, i, mark)[1])
         ELSE DateMatch(s, i + 1, mark)

\* text.replace(/<mark>\s*\d{4}-\d{2}-\d{2}/g, '')
RECURSIVE StripDates(_, _, _)
StripDates(s, i, mark) ==
    IF i > Len(s) THEN ""
    ELSE IF DateAt(s, i, mark) # Null THEN StripDates(s, DateAt(s, i, mark)[2], mark)
         ELSE Char(s, i) \o StripDates(s, i + 1, mark)

DigitOf(c) ==
    CASE c = "0" -> 0 [] c = "1" -> 1 [] c = "2" -> 2 [] c = "3" -> 3
      [] c = "4" -> 4 [] c = "5" -> 5 [] c = "6" -> 6 [] c = "7" -> 7
      [] c = "8" -> 8 [] c = "9" -> 9

RECURSIVE NumberOf(_)
NumberOf(s) ==
    IF s = "" THEN 0
    ELSE 10 * NumberOf(SubSeq(s, 1, Len(s) - 1)) + DigitOf(Char(s, Len(s)))

IsLeap(y) == y % 4 = 0 /\ (y % 100 # 0 \/ y % 400 = 0)

DaysInMonth(y, m) ==
    IF m = 2 THEN (IF IsLeap(y) THEN 29 ELSE 28)
    ELSE IF m \in {4, 6, 9, 11} THEN 30 ELSE 31

\* The number of the day y-m-d, counted from 1970-01-01 (day 0), for y >= 1970.
RECURSIVE DaysBeforeYear(_)
DaysBeforeYear(y) ==
    IF y <= 1970 THEN 0
    ELSE DaysBeforeYear(y - 1) + (IF IsLeap(y - 1) THEN 366 ELSE 365)

RECURSIVE DaysBeforeMonth(_, _)
DaysBeforeMonth(y, m) ==
    IF m <= 1 THEN 0 ELSE DaysBeforeMonth(y, m - 1) + DaysInMonth(y, m - 1)

DayNumber(y, m, d) == DaysBeforeYear(y) + DaysBeforeMonth(y, m) + d - 1

\* new Date('YYYY-MM-DD'): a date-only string is read as midnight UTC of that
\* day.  A Date object is Some(its time value), the time value being
\* Some(hours since the epoch), or Null (NaN) for Invalid Date.
NewDate(p) ==
    LET y == NumberOf(SubSeq(p, 1, 4))
        m == NumberOf(SubSeq(p, 6, 7))
        d == NumberOf(SubSeq(p, 9, 10))
    IN  IF m \in 1..12 /\ d \in 1..31
        THEN Some(Some(24 * DayNumber(y, m, d))) ELSE Some(Null)

\* Lines 75-101 with the lowercasing of the tags left out.
ParseLineCased(line) ==
    LET trimmed == trimStart(line)
        m       == MatchChecklist(trimmed)
        t1      == trim(StripTags(m[2], 1))
        t2      == trim(StripIdAndBlockers(t1, 1))
        schedM  == DateMatch(t2, 1, ScheduledMark)
        startM  == DateMatch(t2, 1, StartMark)
        t3      == trim(StripDates(StripDates(t2, 1, ScheduledMark), 1, StartMark))
    IN  IF m = Null
        THEN [check |-> FALSE, indent |-> Len(line) - Len(trimmed)]
        ELSE [check     |-> TRUE,
              indent    |-> Len(line) - Len(trimmed),
              completed |-> m[1] # " ",
              tags      |-> TagsOfCased(m[2]),
              id        |-> IdMatch(t1, 1),
              blockers  |-> BlockerMatches(t1, 1),
              scheduled |-> IF schedM # Null THEN NewDate(schedM[1]) ELSE Null,
              start     |-> IF startM # Null THEN NewDate(startM[1]) ELSE Null,
              text      |-> t3,
              blockId   |-> Null,
              links     |-> <<>>]

\* Lines 75-101: what collectTasks reads out of one line of a document.  The
\* line is in no list of the metadata cache here.
ParseLine(line) ==
    LET trimmed == trimStart(line)
        m       == MatchChecklist(trimmed)
        t1      == trim(StripTags(m[2], 1))
        t2      == trim(StripIdAndBlockers(t1, 1))
        schedM  == DateMatch(t2, 1, ScheduledMark)
        startM  == DateMatch(t2, 1, StartMark)
        t3      == trim(StripDates(StripDates(t2, 1, ScheduledMark), 1, StartMark))
    IN  IF m = Null
        THEN [check |-> FALSE, indent |-> Len(line) - Len(trimmed)]
        ELSE [check     |-> TRUE,
              indent    |-> Len(line) - Len(trimmed),
              completed |-> m[1] # " ",
              tags      |-> TagsOf(m[2]),
              id        |-> IdMatch(t1, 1),
              blockers  |-> BlockerMatches(t1, 1),
              scheduled |-> IF schedM # Null THEN NewDate(schedM[1]) ELSE Null,
              start     |-> IF startM # Null THEN NewDate(startM[1]) ELSE Null,
              text      |-> t3,
              blockId   |-> Null,
              links     |-> <<>>]

\* The lines of every document, read as collectTasks reads them.
ParseVault(v) == [f \in DOMAIN v |-> [i \in DOMAIN v[f] |-> ParseLine(v[f][i])]]

(***************************************************************************)
(* collectTasks: one line of one document.                                 *)
(***************************************************************************)
\* `task-${file.path}-${i}`
DerivedId(path, i) == "task-" \o path \o "-" \o ToString(i)

\* metadataCache.getFileCache(file): the block id of each list item that has
\* one, by line number, and the links of the document in line order.
CacheOf(doc) ==
    [blockIds |-> {<<i - 1, doc[i].blockId[1]>> :
                     i \in {j \in DOMAIN doc : doc[j].blockId # Null}},
     links    |-> Flatten([i \in DOMAIN doc |-> doc[i].links])]

\* listItems?.find(item => item.position.start.line === i)?.id
BlockIdAt(cache, i) ==
    IF \E p \in cache.blockIds : p[1] = i
    THEN Some((CHOOSE p \in cache.blockIds : p[1] = i)[2])
    ELSE Null

\* The while loop of lines 117-119 popping the deeper frames only.
RECURSIVE PopStackDeeper(_, _)
PopStackDeeper(stack, indent) ==
    IF stack # <<>> /\ stack[Len(stack)].indent > indent
    THEN PopStackDeeper(SubSeq(stack, 1, Len(stack) - 1), indent)
    ELSE stack

\* The stack after `while (stack.length && top.indent >= indent) stack.pop()`.
RECURSIVE PopStack(_, _)
PopStack(stack, indent) ==
    IF stack # <<>> /\ stack[Len(stack)].indent >= indent
    THEN PopStack(SubSeq(stack, 1, Len(stack) - 1), indent)
    ELSE stack

\* The task object of line i of file f, before it is attached to a parent.
NewTask(f, i, line, cache) ==
    [id        |-> IF line.id # Null THEN line.id[1] ELSE DerivedId(Paths[f], i),
     text      |-> line.text,
     x         |-> Null,
     completed |-> line.completed,
     children  |-> <<>>,
     parent    |-> Null,
     blockers  |-> line.blockers,
     file      |-> f,
     line      |-> i,
     depth     |-> 0,
     tags      |-> line.tags,
     scheduled |-> line.scheduled,
     start     |-> line.start,
     outlinks  |-> cache.links,
     blockId   |-> BlockIdAt(cache, i)]

\* Lines 117-126: pop, attach to the parent on top of the stack, push.  The
\* stack and the children lists hold task objects, here positions in tasks.
PushTask(st, task, indent) ==
    LET stack == PopStack(st.stack, indent)
        n     == Len(st.tasks) + 1
    IN  IF stack # <<>>
        THEN LET p == stack[Len(stack)].task
             IN  [st EXCEPT
                    !.tasks = Append([@ EXCEPT ![p].children = Append(@, n)],
                                     [task EXCEPT
                                        !.parent = Some(st.tasks[p].id),
                                        !.depth  = st.tasks[p].depth + 1]),
                    !.stack = Append(stack, [task |-> n, indent |-> indent])]
        ELSE [st EXCEPT
                !.tasks = Append(@, task),
                !.stack = <<[task |-> n, indent |-> indent]>>]

\* The body of lines.forEach for line i (0-based) of file f.
ScanLine(st, f, i, line, cache, limit) ==
    IF Len(st.tasks) >= limit THEN st
    ELSE IF ~line.check THEN st
    ELSE PushTask([st EXCEPT !.tags = @ \cup line.tags],
                  NewTask(f, i, line, cache), line.indent)

\* lines.forEach over a whole document, from line i on.
RECURSIVE ScanLines(_, _, _, _, _, _)
ScanLines(st, f, i, doc, cache, limit) ==
    IF i >= Len(doc) THEN st
    ELSE ScanLines(ScanLine(st, f, i, doc[i + 1], cache, limit),
                   f, i + 1, doc, cache, limit)

(***************************************************************************)
(* processTasks of the canvas view (Policy B).                             *)
(***************************************************************************)
\* The completion glyph (a check mark) that prefixes a completed node's text.
Glyph == "[v] "

\* { ...t, text: t.completed ? `<glyph> ${t.text}` : t.text }
NodeOf(t) == [t EXCEPT !.text = IF t.completed THEN Glyph \o t.text ELSE t.text]

\* link.subpath.slice(1)
Slice1(s) == SubSeq(s, 2, Len(s))

wantTaskBlockIds(tasks) ==
    {tasks[i].blockId[1] :
       i \in {j \in DOMAIN tasks :
                "#want" \in tasks[j].tags /\ tasks[j].blockId # Null}}

wantTasks(tasks) ==
    {tasks[i].id : i \in {j \in DOMAIN tasks : "#want" \in tasks[j].tags}}

linkedTasks(tasks) ==
    {tasks[i].id :
       i \in {j \in DOMAIN tasks :
                \E k \in DOMAIN tasks[j].outlinks :
                   Slice1(tasks[j].outlinks[k]) \in wantTaskBlockIds(tasks)}}

filteredTasks(tasks) ==
    LET keep == {i \in DOMAIN tasks :
                   tasks[i].id \in wantTasks(tasks) \cup linkedTasks(tasks)}
        idx  == FilterIdx(Len(tasks), 1, keep)
    IN  [k \in DOMAIN idx |-> NodeOf(tasks[idx[k]])]

\* LinksOf without `visible.has(t.parent)`: a hierarchy link for every parent.
LinksOfAnyParent(t, allIds, visible) ==
    LET dep(b) == IF b \in allIds /\ b \in visible /\ t.id \in visible
                  THEN <<[source |-> b, target |-> t.id, type |-> "dependency"]>>
                  ELSE <<>>
    IN  (IF t.parent # Null
         THEN <<[source |-> t.parent[1], target |-> t.id, type |-> "hierarchy"]>>
         ELSE <<>>)
        \o Flatten([k \in DOMAIN t.blockers |-> dep(t.blockers[k])])

\* The links pushed for one filtered task: its hierarchy link, then one
\* dependency link per resolvable blocker.
LinksOf(t, allIds, visible) ==
    LET dep(b) == IF b \in allIds /\ b \in visible /\ t.id \in visible
                  THEN <<[source |-> b, target |-> t.id, type |-> "dependency"]>>
                  ELSE <<>>
    IN  (IF t.parent # Null /\ t.parent[1] \in visible
         THEN <<[source |-> t.parent[1], target |-> t.id, type |-> "hierarchy"]>>
         ELSE <<>>)
        \o Flatten([k \in DOMAIN t.blockers |-> dep(t.blockers[k])])

processTasks(tasks) ==
    LET nodes   == filteredTasks(tasks)
        allIds  == {tasks[i].id : i \in DOMAIN tasks}
        visible == {nodes[i].id : i \in DOMAIN nodes}
    IN  [nodes |-> nodes,
         links |-> Flatten([k \in DOMAIN nodes |-> LinksOf(nodes[k], allIds, visible)])]

(***************************************************************************)
(* collectTasks of the canvas view, cut at its awaits.                     *)
(***************************************************************************)
RemoveAt(s, k) == SubSeq(s, 1, k - 1) \o SubSeq(s, k + 1, Len(s))

\* simulation.nodes(nodes): d3 gives node i, which has no position yet, the
\* position 10 * sqrt(0.5 + i) at the angle i * pi * (3 - sqrt(5)), rounded
\* here to whole numbers.
InitialPos(i) ==
    CASE i = 1 -> <<7, 0>>
      [] i = 2 -> <<-9, 8>>
      [] i = 3 -> <<1, -16>>
      [] i = 4 -> <<11, 15>>
      [] OTHER -> <<-21, -4>>

\* The layout fields of node object i of a new node list: a position, no pin.
NewLayout(nodes) ==
    [i \in DOMAIN nodes |-> [x |-> Some(InitialPos(i)[1]), y |-> Some(InitialPos(i)[2]),
                             fx |-> Null, fy |-> Null]]

\* this.data is replaced: a drag in progress keeps its node object, which is
\* no longer one of data.nodes (written as node 0).
Detach(p) == IF p.drag = Null THEN p ELSE [p EXCEPT !.drag = Some(0)]

\* A newer scan has started: every scan in flight is stale from now on.
Stale(ss) == [k \in DOMAIN ss |-> [ss[k] EXCEPT !.latest = FALSE]]

\* The head of the for loop at file f with `tasks` collected so far: leave
\* the loop (no file left, or the limit is reached) and call processTasks, or
\* read the cache of file f and suspend in `await read(file)`.
LoopDone(f, tasks, limit) == f > Len(Paths) \/ Len(tasks) >= limit

\* this.processTasks(tasks) at the end of a scan that is (or is not) the
\* newest one started, this.taskLimit being limit.
Finish(tasks, latest, limit) ==
    /\ data' = processTasks(tasks)
    /\ scanned' = tasks
    /\ doneLimit' = limit
    /\ doneLatest' = latest
    /\ applied' = <<"process">>
    /\ latestData' = IF latest THEN Some(processTasks(tasks)) ELSE latestData
    /\ layout' = NewLayout(processTasks(tasks).nodes)
    /\ simulation' = "running"
    /\ pointer' = Detach(pointer)

\* refreshData() / onOpen(): collectTasks from its first line to its first
\* await (or to its end when the loop is left at once), the documents being
\* v and this.taskLimit being limit.
StartScanWatched(v, limit) ==
    /\ Len(scans) < MaxInFlight
    /\ UNCHANGED <<transform, useDates, clock>>
    /\ IF LoopDone(1, <<>>, limit)
       THEN /\ allTags' = {}
            /\ scans' = Stale(scans)
            /\ Finish(<<>>, TRUE, limit)
       ELSE /\ allTags' = {}
            /\ scans' = Append(Stale(scans),
                               [file |-> 1, cache |-> CacheOf(v[1]),
                                tasks |-> <<>>, latest |-> TRUE])
            /\ latestData' = Null
            /\ UNCHANGED <<data, scanned, doneLimit, doneLatest, applied,
                           layout, simulation, pointer>>

\* The same, called by anything but the 'modify' callback.
StartScan(v, limit) == StartScanWatched(v, limit) /\ UNCHANGED watch

\* The Update button.
RefreshData ==
    /\ StartScan(vault, taskLimit)
    /\ UNCHANGED <<vault, taskLimit, useDates, clock, showCompleted, showBlocked,
                   showWithoutTags, selectedTags>>

\* The read of scan k resolves with the document as it is now; its lines are
\* scanned, and the loop goes on to the next file or ends the scan.
ReadResolvesWatched(k) ==
    LET s  == scans[k]
        st == ScanLines([tasks |-> s.tasks, stack |-> <<>>, tags |-> allTags],
                        s.file, 0, vault[s.file], s.cache, taskLimit)
    IN  /\ allTags' = st.tags
        /\ UNCHANGED <<vault, taskLimit, useDates, clock, showCompleted, showBlocked,
                       showWithoutTags, selectedTags, transform>>
        /\ IF LoopDone(s.file + 1, st.tasks, taskLimit)
           THEN /\ scans' = RemoveAt(scans, k)
                /\ Finish(st.tasks, s.latest, taskLimit)
           ELSE /\ scans' = [scans EXCEPT ![k] =
                               [s EXCEPT !.file = s.file + 1,
                                         !.cache = CacheOf(vault[s.file + 1]),
                                         !.tasks = st.tasks]]
                /\ UNCHANGED <<data, scanned, doneLimit, doneLatest, applied,
                               latestData, layout, simulation, pointer>>

\* The same for a scan made by refreshData(): updateGraph follows.
ReadResolves(k) == ReadResolvesWatched(k) /\ UNCHANGED watch

(***************************************************************************)
(* The controls of renderControls: each handler sets a field and calls     *)
(* refreshData(), which starts a scan.                                     *)
(***************************************************************************)
\* 'Show completed:' checkbox.
ToggleShowCompleted ==
    /\ showCompleted' = ~showCompleted
    /\ StartScan(vault, taskLimit)
    /\ UNCHANGED <<vault, taskLimit, useDates, clock, showBlocked, showWithoutTags, selectedTags>>

\* 'Show blocked:' checkbox.
ToggleShowBlocked ==
    /\ showBlocked' = ~showBlocked
    /\ StartScan(vault, taskLimit)
    /\ UNCHANGED <<vault, taskLimit, useDates, clock, showCompleted, showWithoutTags, selectedTags>>

\* 'Task limit:' input changed to the number n.
SetTaskLimit(n) ==
    /\ taskLimit' = n
    /\ StartScan(vault, n)
    /\ UNCHANGED <<vault, showCompleted, showBlocked, showWithoutTags, selectedTags>>

\* A document is modified to doc while the 'modify' subscription of
\* setupFileWatch is on (liveUpdate is true from construction): the callback
\* calls refreshData().
Modify(f, doc) ==
    /\ doc # vault[f]
    /\ vault' = [vault EXCEPT ![f] = doc]
    /\ StartScan(vault', taskLimit)
    /\ UNCHANGED <<taskLimit, useDates, clock, showCompleted, showBlocked, showWithoutTags, selectedTags>>

(***************************************************************************)
(* The SVG view (src/unnamed/part_001).  Its collectTasks is the one of    *)
(* the canvas view without task limit, block ids and outlinks; the         *)
(* hierarchy stack (PopStack, PushTask) is the same code.                  *)
(***************************************************************************)
NoCache == [blockIds |-> {}, links |-> <<>>]

\* The body of lines.forEach for line i (0-based) of file f.
ScanLineSvg(st, f, i, line) ==
    IF ~line.check THEN st
    ELSE PushTask([st EXCEPT !.tags = @ \cup line.tags],
                  NewTask(f, i, line, NoCache), line.indent)

RECURSIVE ScanLinesSvg(_, _, _, _)
ScanLinesSvg(st, f, i, doc) ==
    IF i >= Len(doc) THEN st
    ELSE ScanLinesSvg(ScanLineSvg(st, f, i, doc[i + 1]), f, i + 1, doc)

\* hasTag with every in place of some.
hasTagEvery(t) == selectedTags # {} /\ \A tag \in t.tags : tag \in selectedTags

\* const hasTag = selectedTags.size > 0 && t.tags.some(tag => selectedTags.has(tag))
hasTag(t) == selectedTags # {} /\ \E tag \in t.tags : tag \in selectedTags

\* const noTags = this.showWithoutTags && t.tags.length === 0
noTags(t) == showWithoutTags /\ t.tags = {}

tagOk(t) == (selectedTags = {} /\ ~showWithoutTags) \/ hasTag(t) \/ noTags(t)

\* CreateNode writing the glyph into the task object instead of into a copy.
CreateNodeInPlace(acc, i) ==
    LET t == acc.tasks[i]
    IN  IF (showCompleted \/ ~t.completed) /\ (showBlocked \/ t.blockers = <<>>)
           /\ tagOk(t)
        THEN [acc EXCEPT !.nodes = Append(@, NodeOf(t)), !.tasks[i] = NodeOf(t)]
        ELSE acc

\* create(t), first statement: the node of t, if t passes the filter.  acc
\* holds the nodes and links pushed so far and the task objects.
CreateNode(acc, i) ==
    LET t == acc.tasks[i]
    IN  IF (showCompleted \/ ~t.completed) /\ (showBlocked \/ t.blockers = <<>>)
           /\ tagOk(t)
        THEN [acc EXCEPT !.nodes = Append(@, NodeOf(t))]
        ELSE acc

\* ChildLink gated on the parent alone.
ChildLinkParentOnly(acc, i, c) ==
    LET t  == acc.tasks[i]
        ch == acc.tasks[c]
    IN  IF /\ showCompleted \/ ~t.completed
           /\ showBlocked \/ t.blockers = <<>>
        THEN [acc EXCEPT !.links = Append(@, [source |-> t.id, target |-> ch.id,
                                               type |-> "hierarchy"])]
        ELSE acc

\* create(t), children loop: the hierarchy link from t to its child c.
ChildLink(acc, i, c) ==
    LET t  == acc.tasks[i]
        ch == acc.tasks[c]
    IN  IF /\ showCompleted \/ (~t.completed /\ ~ch.completed)
           /\ showBlocked \/ (t.blockers = <<>> /\ ch.blockers = <<>>)
        THEN [acc EXCEPT !.links = Append(@, [source |-> t.id, target |-> ch.id,
                                               type |-> "hierarchy"])]
        ELSE acc

\* create(t): the node of t, then for each child its link and create(child).
RECURSIVE create(_, _)
RECURSIVE createChildren(_, _, _)
create(acc, i) == createChildren(CreateNode(acc, i), i, 1)
createChildren(acc, i, k) ==
    IF k > Len(acc.tasks[i].children) THEN acc
    ELSE LET c == acc.tasks[i].children[k]
         IN  createChildren(create(ChildLink(acc, i, c), c), i, k + 1)

\* tasks.filter(t => !t.parent).forEach(create), from the root at position i on.
RECURSIVE createRoots(_, _)
createRoots(acc, i) ==
    IF i > Len(acc.tasks) THEN acc
    ELSE createRoots(IF acc.tasks[i].parent = Null THEN create(acc, i) ELSE acc, i + 1)

\* The dependency links of task t.
DependencyLinksSvg(t, allIds, visible) ==
    IF ~showBlocked /\ t.blockers # <<>> THEN <<>>
    ELSE Flatten([k \in DOMAIN t.blockers |->
            IF t.blockers[k] \in allIds /\ t.blockers[k] \in visible /\ t.id \in visible
            THEN <<[source |-> t.blockers[k], target |-> t.id, type |-> "dependency"]>>
            ELSE <<>>])

\* processTasks(tasks): the nodes and links it stores in this.data, and the
\* task objects as it leaves them.
processTasksSvg(tasks) ==
    LET acc     == createRoots([nodes |-> <<>>, links |-> <<>>, tasks |-> tasks], 1)
        allIds  == {tasks[i].id : i \in DOMAIN tasks}
        visible == {acc.nodes[i].id : i \in DOMAIN acc.nodes}
    IN  [nodes |-> acc.nodes,
         links |-> acc.links \o
                   Flatten([k \in DOMAIN tasks |->
                              DependencyLinksSvg(tasks[k], allIds, visible)]),
         tasks |-> acc.tasks]

\* renderGraph: the links handed to the layout and drawn.
validLinks(d) ==
    LET ids == {d.nodes[i].id : i \in DOMAIN d.nodes}
    IN  SelectSeq(d.links, LAMBDA l : l.source \in ids /\ l.target \in ids)

\* The machine's clock: the time in hours since the epoch, and the offset of
\* local time from UTC in hours.  Here it is noon UTC of 2024-01-02.
NoonUtc == [now |-> 473388, tz |-> 0]

\* The local calendar day (getFullYear, getMonth, getDate) of the time h, as
\* a day number, and new Date(year, month, day): local midnight of a day.
LocalDay(h, c) == (h + c.tz) \div 24
LocalMidnight(day, c) == 24 * day - c.tz

\* const today = new Date(now.getFullYear(), now.getMonth(), now.getDate())
today == LocalMidnight(LocalDay(clock.now, clock), clock)

leftX == (ViewW * 25) \div 100
midX == (ViewW * 50) \div 100
rightX == (ViewW * 75) \div 100

\* The accessor of forceX: the x a node is pulled to.  d3 calls it once for
\* every node when the simulation is built.  A comparison with an Invalid
\* Date is false.
forceX(d) ==
    LET dt == IF d.start # Null THEN d.start ELSE d.scheduled
        dd == LocalMidnight(LocalDay(dt[1][1], clock), clock)
    IN  IF ~useDates THEN midX
        ELSE IF dt # Null /\ dt[1] # Null /\ dd < today THEN leftX
        ELSE IF dt # Null /\ dt[1] # Null /\ dd > today THEN rightX
        ELSE midX

\* The layout fields of the nodes of a new simulation of the SVG view, with
\* the x each node is pulled to.
NewLayoutSvg(nodes) ==
    [i \in DOMAIN nodes |->
        [x |-> NewLayout(nodes)[i].x, y |-> NewLayout(nodes)[i].y,
         fx |-> Null, fy |-> Null, target |-> forceX(nodes[i])]]

\* this.processTasks(tasks) at the end of a scan.
FinishSvg(tasks, latest) ==
    LET out == processTasksSvg(tasks)
    IN  /\ data' = [nodes |-> out.nodes, links |-> out.links]
        /\ scanned' = out.tasks
        /\ doneLatest' = latest
        /\ applied' = <<"process">>
        /\ latestData' = IF latest THEN Some([nodes |-> out.nodes, links |-> out.links])
                         ELSE latestData
        /\ layout' = NewLayoutSvg(out.nodes)
        /\ simulation' = "running"
        /\ pointer' = Detach(pointer)
        /\ UNCHANGED doneLimit

\* refreshData(): collectTasks up to its first await.
StartScanSvg ==
    /\ Len(scans) < MaxInFlight
    /\ allTags' = {}
    /\ scans' = Append(Stale(scans),
                       [file |-> 1, cache |-> NoCache, tasks |-> <<>>, latest |-> TRUE])
    /\ latestData' = Null
    /\ UNCHANGED <<taskLimit, clock, data, scanned, doneLimit, doneLatest, applied,
                   layout, simulation, pointer, transform, watch>>

\* The Update button.
RefreshDataSvg ==
    /\ StartScanSvg
    /\ UNCHANGED <<useDates, vault, showCompleted, showBlocked, showWithoutTags, selectedTags>>

ReadResolvesSvg(k) ==
    LET s  == scans[k]
        st == ScanLinesSvg([tasks |-> s.tasks, stack |-> <<>>, tags |-> allTags],
                           s.file, 0, vault[s.file])
    IN  /\ allTags' = st.tags
        /\ UNCHANGED <<vault, taskLimit, useDates, clock, showCompleted, showBlocked,
                       showWithoutTags, selectedTags, transform, watch>>
        /\ IF s.file + 1 > Len(Paths)
           THEN /\ scans' = RemoveAt(scans, k)
                /\ FinishSvg(st.tasks, s.latest)
           ELSE /\ scans' = [scans EXCEPT ![k] =
                               [s EXCEPT !.file = s.file + 1, !.tasks = st.tasks]]
                /\ UNCHANGED <<data, scanned, doneLimit, doneLatest, applied,
                               latestData, layout, simulation, pointer>>

ToggleShowCompletedSvg ==
    /\ showCompleted' = ~showCompleted
    /\ StartScanSvg
    /\ UNCHANGED <<useDates, vault, showBlocked, showWithoutTags, selectedTags>>

ToggleShowBlockedSvg ==
    /\ showBlocked' = ~showBlocked
    /\ StartScanSvg
    /\ UNCHANGED <<useDates, vault, showCompleted, showWithoutTags, selectedTags>>

\* The 'without tags' checkbox of the tag panel.
ToggleWithoutTagsSvg ==
    /\ showWithoutTags' = ~showWithoutTags
    /\ StartScanSvg
    /\ UNCHANGED <<useDates, vault, showCompleted, showBlocked, selectedTags>>

\* The checkbox of a discovered tag.
ToggleTagSvg(tag) ==
    /\ tag \in allTags
    /\ selectedTags' = IF tag \in selectedTags THEN selectedTags \ {tag}
                       ELSE selectedTags \cup {tag}
    /\ StartScanSvg
    /\ UNCHANGED <<useDates, vault, showCompleted, showBlocked, showWithoutTags>>

\* 'Clear All'.
ClearTagsSvg ==
    /\ selectedTags' = {}
    /\ showWithoutTags' = FALSE
    /\ StartScanSvg
    /\ UNCHANGED <<useDates, vault, showCompleted, showBlocked>>

\* 'Use Dates:' toggle.
ToggleUseDatesSvg ==
    /\ useDates' = ~useDates
    /\ StartScanSvg
    /\ UNCHANGED <<vault, showCompleted, showBlocked, showWithoutTags, selectedTags>>

\* The node object a link end is resolved to, written as a reference to its
\* position in data.nodes; never equal to an id.
Ref(i) == "@" \o ToString(i)

\* forceLink(validLinks).id(d => d.id): the node an id resolves to is the last
\* node carrying it.
NodeById(nodes, id) == Ref(CHOOSE i \in DOMAIN nodes :
                             /\ nodes[i].id = id
                             /\ \A j \in DOMAIN nodes : nodes[j].id = id => j <= i)

\* renderGraph: the layout simulation over this.data.  It writes positions
\* into the node objects and replaces the ids in the links it was handed by
\* the node objects they name.
LayoutSvg ==
    /\ scans = <<>>
    /\ applied # <<>>
    /\ Len(applied) < MaxApplied
    /\ LET valid == validLinks(data)
       IN  data' = [nodes |-> [i \in DOMAIN data.nodes |->
                                 [data.nodes[i] EXCEPT !.x = Some(i)]],
                    links |-> [k \in DOMAIN data.links |->
                                 IF \E j \in DOMAIN valid : valid[j] = data.links[k]
                                 THEN [data.links[k] EXCEPT
                                         !.source = NodeById(data.nodes, @),
                                         !.target = NodeById(data.nodes, @)]
                                 ELSE data.links[k]]]
    /\ applied' = Append(applied, "layout")
    /\ UNCHANGED <<vault, taskLimit, useDates, clock, showCompleted, showBlocked, showWithoutTags,
                   selectedTags, allTags, scans, scanned, doneLimit, doneLatest,
                   latestData, layout, simulation, pointer, transform, watch>>

\* processTasks applied once more to the task list of the last scan, under
\* the filters as they are.
ReprocessSvg ==
    /\ scans = <<>>
    /\ applied # <<>>
    /\ Len(applied) < MaxApplied
    /\ LET out == processTasksSvg(scanned)
       IN  /\ data' = [nodes |-> out.nodes, links |-> out.links]
           /\ scanned' = out.tasks
    /\ applied' = Append(applied, "process")
    /\ UNCHANGED <<vault, taskLimit, useDates, clock, showCompleted, showBlocked, showWithoutTags,
                   selectedTags, allTags, scans, doneLimit, doneLatest, latestData,
                   layout, simulation, pointer, transform, watch>>

(***************************************************************************)
(* The mouse in the SVG view (src/unnamed/part_001).  d3-drag is attached  *)
(* to the node elements with the filter `button === 0`, d3-zoom to the svg *)
(* element with the filter `wheel, or mousedown with button === 2`.  Both  *)
(* start their gesture on mousedown, follow mousemove on the window, and   *)
(* end it on the next mouseup of any button; a mousedown that d3-drag      *)
(* takes does not reach the svg element.                                   *)
(***************************************************************************)
\* started(e, d), for the button of e.sourceEvent.
startedSvg(button, d) ==
    IF button # 0 THEN d ELSE [d EXCEPT !.fx = d.x, !.fy = d.y]

\* dragged(e, d), e.x and e.y being the point p.
draggedSvg(p, d) == [d EXCEPT !.fx = Some(p[1]), !.fy = Some(p[2])]

\* ended with the pin left in place.
endedPinnedSvg(d) == d

\* ended(e, d).
endedSvg(d) == [d EXCEPT !.fx = Null, !.fy = Null]

\* A handler h of the drag applied to the node object of the gesture; the
\* object may have left data.nodes.
OnDragged(l, p, h(_)) ==
    IF p.drag # Null /\ p.drag[1] \in DOMAIN l
    THEN [l EXCEPT ![p.drag[1]] = h(@)]
    ELSE l

\* transform.invert(pt), the graph coordinates under the screen point pt.
Invert(t, pt) == <<Over(Minus(Num(pt[1]), t.x), t.k), Over(Minus(Num(pt[2]), t.y), t.k)>>

\* d3-zoom's mousemove during a pan: the graph point p1 taken at mousedown
\* stays under the mouse, now at pt.
PanTo(t, pt, p1) ==
    [t EXCEPT !.x = Minus(Num(pt[1]), Times(p1[1], t.k)),
              !.y = Minus(Num(pt[2]), Times(p1[2], t.k))]

\* The transform is kept within MaxPan of the origin.
InPanRange(t) ==
    /\ Leq(Num(-MaxPan), t.x) /\ Leq(t.x, Num(MaxPan))
    /\ Leq(Num(-MaxPan), t.y) /\ Leq(t.y, Num(MaxPan))

\* mousedown of button b at pt, on node `target` (0: on the background).
MouseDownSvg(b, pt, target) ==
    /\ b \notin pointer.held
    /\ target \in 0..Len(layout)
    /\ IF target > 0 /\ b = 0
       THEN /\ pointer' = [pointer EXCEPT !.held = @ \cup {b}, !.drag = Some(target)]
            /\ layout' = [layout EXCEPT ![target] = startedSvg(b, @)]
       ELSE IF b = 2
       THEN /\ pointer' = [pointer EXCEPT !.held = @ \cup {b},
                              !.pan = Some([button |-> b, at |-> Invert(transform, pt)])]
            /\ UNCHANGED layout
       ELSE /\ pointer' = [pointer EXCEPT !.held = @ \cup {b}]
            /\ UNCHANGED layout
    /\ UNCHANGED <<simulation, vault, taskLimit, useDates, clock, showCompleted, showBlocked, showWithoutTags,
                   selectedTags, allTags, data, scans, scanned, doneLimit,
                   doneLatest, latestData, applied, transform, watch>>

\* mousemove to pt while a gesture is in progress.
MouseMoveSvg(pt) ==
    /\ pointer.drag # Null \/ pointer.pan # Null
    /\ layout' = OnDragged(layout, pointer, LAMBDA d : draggedSvg(pt, d))
    /\ transform' = IF pointer.pan # Null THEN PanTo(transform, pt, pointer.pan[1].at)
                    ELSE transform
    /\ InPanRange(transform')
    /\ UNCHANGED <<simulation, vault, taskLimit, useDates, clock, showCompleted, showBlocked, showWithoutTags,
                   selectedTags, allTags, data, scans, scanned, doneLimit,
                   doneLatest, latestData, applied, pointer, watch>>

\* mouseup of button b.
MouseUpSvg(b) ==
    /\ b \in pointer.held
    /\ layout' = OnDragged(layout, pointer, endedSvg)
    /\ pointer' = [held |-> pointer.held \ {b}, drag |-> Null, pan |-> Null]
    /\ UNCHANGED <<vault, taskLimit, useDates, clock, showCompleted, showBlocked, showWithoutTags,
                   selectedTags, allTags, data, scans, scanned, doneLimit,
                   doneLatest, latestData, applied, transform, watch, simulation>>

\* A tick of the force simulation: a pinned node is put on its pin, and the
\* forces move the unpinned node i to p.
Tick(i, p) ==
    /\ i \in DOMAIN layout
    /\ layout[i].fx = Null
    /\ layout' = [j \in DOMAIN layout |->
                    IF layout[j].fx # Null
                    THEN [layout[j] EXCEPT !.x = layout[j].fx, !.y = layout[j].fy]
                    ELSE IF j = i THEN [layout[j] EXCEPT !.x = Some(p[1]), !.y = Some(p[2])]
                    ELSE layout[j]]
    /\ UNCHANGED <<simulation, vault, taskLimit, useDates, clock, showCompleted, showBlocked, showWithoutTags,
                   selectedTags, allTags, data, scans, scanned, doneLimit,
                   doneLatest, latestData, applied, pointer, transform, watch>>

\* A document is modified to doc while the 'modify' subscription is on.
ModifySvg(f, doc) ==
    /\ doc # vault[f]
    /\ watch.subscriptions > 0
    /\ vault' = [vault EXCEPT ![f] = doc]
    /\ StartScanSvg
    /\ UNCHANGED <<useDates, showCompleted, showBlocked, showWithoutTags, selectedTags>>

(***************************************************************************)
(* The mouse and the view transform in the canvas view                     *)
(* (src/TasksGraphView.ts).  d3-zoom is attached to the canvas element     *)
(* with scaleExtent([0.1, 5]) and no filter, so with d3's default filter   *)
(* `(!ctrlKey || wheel) && !button`; the drag of drag() is attached to     *)
(* nothing.                                                                *)
(***************************************************************************)
\* .scaleExtent([0.1, 5])
ScaleExtent == <<Frac(1, 10), Num(5)>>

\* d3-zoom's default filter for a mousedown of button b without ctrl.
DefaultFilter(b) == b = 0

\* mousedown of button b at pt on the canvas.
MouseDown(b, pt) ==
    /\ b \notin pointer.held
    /\ pointer' = IF DefaultFilter(b)
                  THEN [pointer EXCEPT !.held = @ \cup {b},
                           !.pan = Some([button |-> b, at |-> Invert(transform, pt)])]
                  ELSE [pointer EXCEPT !.held = @ \cup {b}]
    /\ UNCHANGED <<vault, taskLimit, useDates, clock, showCompleted, showBlocked, showWithoutTags,
                   selectedTags, allTags, data, scans, scanned, doneLimit,
                   doneLatest, latestData, applied, layout, simulation, transform, watch>>

\* mousemove to pt during a pan.
MouseMove(pt) ==
    /\ pointer.pan # Null
    /\ transform' = PanTo(transform, pt, pointer.pan[1].at)
    /\ InPanRange(transform')
    /\ UNCHANGED <<vault, taskLimit, useDates, clock, showCompleted, showBlocked, showWithoutTags,
                   selectedTags, allTags, data, scans, scanned, doneLimit,
                   doneLatest, latestData, applied, layout, simulation, pointer, watch>>

\* mouseup of button b.
MouseUp(b) ==
    /\ b \in pointer.held
    /\ pointer' = [held |-> pointer.held \ {b}, drag |-> Null, pan |-> Null]
    /\ UNCHANGED <<vault, taskLimit, useDates, clock, showCompleted, showBlocked, showWithoutTags,
                   selectedTags, allTags, data, scans, scanned, doneLimit,
                   doneLatest, latestData, applied, layout, simulation, transform, watch>>

\* d3-zoom's wheel handler: the scale times f, clamped to the scale extent,
\* the graph point under the mouse at pt staying where it is.
WheelZoom(t, f, pt) ==
    LET k  == Max2(ScaleExtent[1], Min2(ScaleExtent[2], Times(t.k, f)))
        p1 == Invert(t, pt)
    IN  [k |-> k,
         x |-> Minus(Num(pt[1]), Times(p1[1], k)),
         y |-> Minus(Num(pt[2]), Times(p1[2], k))]

\* A wheel event at pt that asks for the scale times f.
Wheel(f, pt) ==
    /\ transform' = WheelZoom(transform, f, pt)
    /\ transform' # transform
    /\ UNCHANGED <<vault, taskLimit, useDates, clock, showCompleted, showBlocked, showWithoutTags,
                   selectedTags, allTags, data, scans, scanned, doneLimit,
                   doneLatest, latestData, applied, layout, simulation, pointer, watch>>

\* The coordinates that pass filter(x => !isNaN(x)).
FiniteXs(l) == {l[i].x[1] : i \in {j \in DOMAIN l : l[j].x # Null}}
FiniteYs(l) == {l[i].y[1] : i \in {j \in DOMAIN l : l[j].y # Null}}
MinOf(S) == CHOOSE m \in S : \A n \in S : m <= n
MaxOf(S) == CHOOSE m \in S : \A n \in S : n <= m

\* fitToView with Math.min in place of Math.max.
fitToViewNarrow(l, t) ==
    IF Len(l) = 0 \/ FiniteXs(l) = {} \/ FiniteYs(l) = {} THEN t
    ELSE LET minX   == MinOf(FiniteXs(l))
             minY   == MinOf(FiniteYs(l))
             graphW == MaxOf(FiniteXs(l)) - minX
             graphH == MaxOf(FiniteYs(l)) - minY
         IN  IF graphW = 0 \/ graphH = 0 THEN t
             ELSE LET scale == Over(Frac(85, 100),
                                    Min2(Frac(graphW, ViewW), Frac(graphH, ViewH)))
                  IN  [k |-> scale,
                       x |-> Minus(Frac(ViewW, 2),
                                   Times(scale, Plus(Num(minX), Frac(graphW, 2)))),
                       y |-> Minus(Frac(ViewH, 2),
                                   Times(scale, Plus(Num(minY), Frac(graphH, 2))))]

\* fitToView that centres a flat bounding box at the scale it has.
fitToViewCentring(l, t) ==
    IF Len(l) = 0 \/ FiniteXs(l) = {} \/ FiniteYs(l) = {} THEN t
    ELSE LET minX   == MinOf(FiniteXs(l))
             minY   == MinOf(FiniteYs(l))
             graphW == MaxOf(FiniteXs(l)) - minX
             graphH == MaxOf(FiniteYs(l)) - minY
             scale  == IF graphW = 0 \/ graphH = 0 THEN t.k
                       ELSE Over(Frac(85, 100),
                                 Max2(Frac(graphW, ViewW), Frac(graphH, ViewH)))
         IN  [k |-> scale,
              x |-> Minus(Frac(ViewW, 2), Times(scale, Plus(Num(minX), Frac(graphW, 2)))),
              y |-> Minus(Frac(ViewH, 2), Times(scale, Plus(Num(minY), Frac(graphH, 2))))]

\* fitToView(): the transform it hands to zoom.transform, or the transform
\* t as it is when it returns early.
fitToView(l, t) ==
    IF Len(l) = 0 \/ FiniteXs(l) = {} \/ FiniteYs(l) = {} THEN t
    ELSE LET minX   == MinOf(FiniteXs(l))
             minY   == MinOf(FiniteYs(l))
             graphW == MaxOf(FiniteXs(l)) - minX
             graphH == MaxOf(FiniteYs(l)) - minY
         IN  IF graphW = 0 \/ graphH = 0 THEN t
             ELSE LET scale == Over(Frac(85, 100),
                                    Max2(Frac(graphW, ViewW), Frac(graphH, ViewH)))
                  IN  [k |-> scale,
                       x |-> Minus(Frac(ViewW, 2),
                                   Times(scale, Plus(Num(minX), Frac(graphW, 2)))),
                       y |-> Minus(Frac(ViewH, 2),
                                   Times(scale, Plus(Num(minY), Frac(graphH, 2))))]

\* The 'Fit' button: fitToView(), the transition to the new transform run to
\* its end.
FitToView ==
    /\ transform' = fitToView(layout, transform)
    /\ applied' = <<"fit">>
    /\ UNCHANGED <<vault, taskLimit, useDates, clock, showCompleted, showBlocked, showWithoutTags,
                   selectedTags, allTags, data, scans, scanned, doneLimit,
                   doneLatest, latestData, layout, simulation, pointer, watch>>

\* collectTasks run from its first line to its last over the documents v,
\* from file f on.
RECURSIVE ScanFrom(_, _, _, _, _)
ScanFrom(f, tasks, tags, v, limit) ==
    IF LoopDone(f, tasks, limit) THEN [tasks |-> tasks, tags |-> tags]
    ELSE LET st == ScanLines([tasks |-> tasks, stack |-> <<>>, tags |-> tags],
                             f, 0, v[f], CacheOf(v[f]), limit)
         IN  ScanFrom(f + 1, st.tasks, st.tags, v, limit)

(***************************************************************************)
(* The life cycle of the canvas view and its 'Live update:' toggle.        *)
(***************************************************************************)
\* onOpen(): collectTasks, renderGraph and setupFileWatch.  No control and
\* no subscription of the view exists before it ends, so it is one step.
OnOpen ==
    LET sc  == ScanFrom(1, <<>>, {}, vault, taskLimit)
        out == processTasks(sc.tasks)
    IN  /\ watch.stage = "new"
        /\ allTags' = sc.tags
        /\ data' = out
        /\ scanned' = sc.tasks
        /\ latestData' = Some(out)
        /\ applied' = <<"process">>
        /\ simulation' = "running"
        /\ layout' = NewLayout(out.nodes)
        /\ watch' = setupFileWatch([watch EXCEPT !.stage = "open"])
        /\ UNCHANGED <<vault, taskLimit, useDates, clock, showCompleted, showBlocked, showWithoutTags,
                       selectedTags, scans, doneLimit, doneLatest, pointer, transform>>

\* this.simulation?.stop()
stop(sim) == IF sim = "none" THEN "none" ELSE "stopped"

\* The body of onClose().
CloseView ==
    /\ watch' = [Offref(watch) EXCEPT !.stage = "closed", !.fileEventRef = FALSE]
    /\ simulation' = stop(simulation)
    /\ UNCHANGED <<vault, taskLimit, useDates, clock, showCompleted, showBlocked, showWithoutTags,
                   selectedTags, allTags, data, scans, scanned, doneLimit,
                   doneLatest, latestData, applied, layout, pointer, transform>>

\* onClose()
OnClose == watch.stage = "open" /\ CloseView

\* The end of onOpen(), after its collectTasks: renderGraph() and
\* setupFileWatch(), whatever has happened to the view in the meantime.
OnOpenEnds(w) ==
    setupFileWatch([w EXCEPT !.opening = FALSE,
                             !.stage = IF @ = "new" THEN "open" ELSE @])

\* onOpen() up to the first await of its collectTasks.
OnOpenStarts ==
    /\ watch.stage = "new"
    /\ ~watch.opening
    /\ watch' = IF LoopDone(1, <<>>, taskLimit) THEN OnOpenEnds(watch)
                ELSE [watch EXCEPT !.opening = TRUE]
    /\ StartScanWatched(vault, taskLimit)
    /\ UNCHANGED <<vault, taskLimit, showCompleted, showBlocked, showWithoutTags,
                   selectedTags>>

\* onClose() while onOpen is suspended in its collectTasks.
OnCloseWhileOpening == watch.stage = "new" /\ watch.opening /\ CloseView

\* A read of the scan of onOpen() resolves; when it was the last one,
\* onOpen() goes on to its end.
ReadResolvesOnOpen(k) ==
    /\ watch.opening
    /\ ReadResolvesWatched(k)
    /\ watch' = IF Len(scans') < Len(scans) THEN OnOpenEnds(watch) ELSE watch

\* The 'Live update:' toggle.
ToggleLiveUpdate ==
    /\ watch.stage = "open"
    /\ watch' = setupFileWatch([watch EXCEPT !.liveUpdate = ~@])
    /\ UNCHANGED <<vault, taskLimit, useDates, clock, showCompleted, showBlocked, showWithoutTags,
                   selectedTags, allTags, data, scans, scanned, doneLimit,
                   doneLatest, latestData, applied, layout, simulation, pointer, transform>>

\* The vault reports that the markdown document f was modified to doc: every
\* subscription's callback calls refreshData().  (The view never has two.)
NotifyModify(f, doc) ==
    /\ doc # vault[f]
    /\ watch.subscriptions <= 1
    /\ vault' = [vault EXCEPT ![f] = doc]
    /\ LET w == [watch EXCEPT !.last = Some([md |-> TRUE, stage |-> watch.stage,
                                             live |-> watch.liveUpdate,
                                             started |-> watch.subscriptions])]
       IN  IF watch.subscriptions = 0
           THEN /\ watch' = w
                /\ UNCHANGED <<allTags, data, scans, scanned, doneLimit, doneLatest,
                               latestData, applied, layout, simulation, pointer, transform>>
           ELSE /\ Len(scans) < MaxInFlight
                /\ watch' = w
                /\ StartScanWatched(vault', taskLimit)
    /\ UNCHANGED <<taskLimit, useDates, clock, showCompleted, showBlocked, showWithoutTags, selectedTags>>

\* The vault reports that a file that is not a markdown document was
\* modified: the callbacks return at the test of the extension.
NotifyOther ==
    /\ watch' = [watch EXCEPT !.last = Some([md |-> FALSE, stage |-> watch.stage,
                                             live |-> watch.liveUpdate, started |-> 0])]
    /\ watch' # watch
    /\ UNCHANGED <<vault, taskLimit, useDates, clock, showCompleted, showBlocked, showWithoutTags,
                   selectedTags, allTags, data, scans, scanned, doneLimit,
                   doneLatest, latestData, applied, layout, simulation, pointer, transform>>

(***************************************************************************)
(* Documents.                                                              *)
(***************************************************************************)
Line(indent, check, completed, tags, id, blockers, blockId, links) ==
    [indent |-> indent, check |-> check, completed |-> completed, tags |-> tags,
     id |-> id, blockers |-> blockers, blockId |-> blockId, links |-> links,
     text |-> "T", scheduled |-> Null, start |-> Null]

\* The vaults over the lines L with at most n lines in all.
VaultsOver(L, n) ==
    UNION {[Files -> {<<>>}] \cup
           {<<d1, d2>> : d1 \in [1..k[1] -> L], d2 \in [1..k[2] -> L]} :
              k \in {kk \in (0..n) \X (0..n) : kk[1] + kk[2] <= n}}

InitFields ==
    /\ taskLimit = TaskLimitDefault
    /\ showCompleted = TRUE
    /\ showBlocked = TRUE
    /\ showWithoutTags = FALSE
    /\ selectedTags = {}
    /\ allTags = {}
    /\ data = [nodes |-> <<>>, links |-> <<>>]
    /\ scans = <<>>
    /\ scanned = <<>>
    /\ doneLimit = TaskLimitDefault
    /\ doneLatest = TRUE
    /\ applied = <<>>
    /\ layout = <<>>
    /\ pointer = [held |-> {}, drag |-> Null, pan |-> Null]
    /\ transform = Identity
    /\ latestData = Null
    /\ useDates = FALSE
    /\ simulation = "none"

\* The view in use: opened, with the subscription that onOpen makes.
InitOpen == InitFields /\ watch = setupFileWatch([Constructed EXCEPT !.stage = "open"])

InitView == InitOpen /\ clock = NoonUtc

(***************************************************************************)
(* SpecTree: one scan at a time over documents that vary in indentation    *)
(* and id markers.                                                         *)
(***************************************************************************)
Indents == {0, 1, 2}

LinesTree ==
    {Line(n, TRUE, FALSE, {}, id, <<>>, Null, <<>>) :
        n \in Indents, id \in {Null, Some("x"), Some("task-a.md-1")}}
    \cup {Line(0, FALSE, FALSE, {}, Null, <<>>, Null, <<>>)}

InitTree == InitView /\ vault \in VaultsOver(LinesTree, MaxLines)

NextTree ==
    \/ scans = <<>> /\ RefreshData
    \/ \E k \in DOMAIN scans : ReadResolves(k)

SpecTree == InitTree /\ [][NextTree]_vars

(***************************************************************************)
(* SpecB: the canvas view used one scan at a time, over documents that     *)
(* vary in '#want' tags, block ids, links, blockers and completion, with   *)
(* the two filter checkboxes and the task limit.                           *)
(***************************************************************************)
LinesB ==
    {\* - [x] W #want (id a) ^k
     Line(0, TRUE, TRUE, {"#want"}, Some("a"), <<>>, Some("k"), <<>>),
     \* - [ ] R [[^k]] (blocked by a)
     Line(0, TRUE, FALSE, {}, Null, <<"a">>, Null, <<"^k">>),
     \* - [ ] P
     Line(0, TRUE, FALSE, {}, Null, <<>>, Null, <<>>)}
    \cup {\* - [ ] G #want (blocked by ghost and a)
          Line(n, TRUE, FALSE, {"#want"}, Null, <<"ghost", "a">>, Null, <<>>) :
             n \in {0, 1}}

Limits == {0, 2, TaskLimitDefault}

InitB == InitView /\ vault \in VaultsOver(LinesB, MaxLines)

NextB ==
    \/ scans = <<>> /\ RefreshData
    \/ scans = <<>> /\ ToggleShowCompleted
    \/ scans = <<>> /\ ToggleShowBlocked
    \/ scans = <<>> /\ \E n \in Limits : SetTaskLimit(n)
    \/ \E k \in DOMAIN scans : ReadResolves(k)

SpecB == InitB /\ [][NextB]_vars

(***************************************************************************)
(* SpecConc: the canvas view with scans that overlap: documents are        *)
(* modified, the task limit is changed and Update is clicked while earlier *)
(* scans are suspended in their reads, and the reads resolve in any order. *)
(***************************************************************************)
LinesConc ==
    {\* - [ ] W #want
     Line(0, TRUE, FALSE, {"#want"}, Null, <<>>, Null, <<>>)}

LimitsConc == {-1, 1, TaskLimitDefault}

\* The documents a modification may leave in file f: the vault stays within
\* MaxLines lines.
DocsConc(f) ==
    {d \in UNION {[1..n -> LinesConc] : n \in 0..MaxLines} :
        \A g \in Files \ {f} : Len(d) + Len(vault[g]) <= MaxLines}

InitConc == InitView /\ vault \in VaultsOver(LinesConc, MaxLines)

NextConc ==
    \/ RefreshData
    \/ \E n \in LimitsConc : SetTaskLimit(n)
    \/ \E f \in Files : \E d \in DocsConc(f) : Modify(f, d)
    \/ \E k \in DOMAIN scans : ReadResolves(k)

SpecConc == InitConc /\ [][NextConc]_vars

(***************************************************************************)
(* SpecA: the SVG view used one scan at a time, over documents that vary   *)
(* in completion, blockers, tags and nesting, with every filter control.   *)
(***************************************************************************)
LinesA ==
    {\* - [ ] A #a (id a)
     Line(0, TRUE, FALSE, {"#a"}, Some("a"), <<>>, Null, <<>>),
     \*   - [x] C #a #b
     Line(1, TRUE, TRUE, {"#a", "#b"}, Null, <<>>, Null, <<>>),
     \*   - [ ] B (blocked by a and ghost)
     Line(1, TRUE, FALSE, {}, Null, <<"a", "ghost">>, Null, <<>>),
     \* - [ ] N #b
     Line(0, TRUE, FALSE, {"#b"}, Null, <<>>, Null, <<>>)}

\* The tags whose checkbox is used.
TagsA == {"#a"}

InitA == InitView /\ vault \in VaultsOver(LinesA, MaxLines)

NextA ==
    \/ scans = <<>> /\ RefreshDataSvg
    \/ scans = <<>> /\ ToggleShowCompletedSvg
    \/ scans = <<>> /\ ToggleShowBlockedSvg
    \/ scans = <<>> /\ ToggleWithoutTagsSvg
    \/ scans = <<>> /\ \E tag \in TagsA : ToggleTagSvg(tag)
    \/ scans = <<>> /\ ClearTagsSvg
    \/ \E k \in DOMAIN scans : ReadResolvesSvg(k)

SpecA == InitA /\ [][NextA]_vars

(***************************************************************************)
(* SpecIdem: the SVG view where the task list of a finished scan is        *)
(* processed again, with the layout running on the graph in between.       *)
(***************************************************************************)
LinesIdem ==
    {\* - [ ] A #a (id a)
     Line(0, TRUE, FALSE, {"#a"}, Some("a"), <<>>, Null, <<>>),
     \*   - [x] C #a #b
     Line(1, TRUE, TRUE, {"#a", "#b"}, Null, <<>>, Null, <<>>),
     \*   - [ ] B (blocked by a and ghost)
     Line(1, TRUE, FALSE, {}, Null, <<"a", "ghost">>, Null, <<>>)}

\* The tasks are in a.md; b.md is empty.
InitIdem ==
    /\ InitView
    /\ vault \in {<<d, <<>>>> : d \in UNION {[1..n -> LinesIdem] : n \in 0..MaxLines}}

NextIdem ==
    \/ scans = <<>> /\ ToggleShowCompletedSvg
    \/ scans = <<>> /\ ToggleShowBlockedSvg
    \/ scans = <<>> /\ ToggleWithoutTagsSvg
    \/ scans = <<>> /\ \E tag \in TagsA : ToggleTagSvg(tag)
    \/ \E k \in DOMAIN scans : ReadResolvesSvg(k)
    \/ LayoutSvg
    \/ ReprocessSvg

SpecIdem == InitIdem /\ [][NextIdem]_vars

(***************************************************************************)
(* SpecDrag: the mouse on the SVG view, with the simulation ticking and    *)
(* documents changing while a gesture is in progress, one scan at a time.  *)
(***************************************************************************)
\* event.button of the buttons used: primary and secondary.
Buttons == {0, 2}

\* Where mouse events happen and where the forces move a node.
Points == {<<0, 0>>, <<40, 20>>}

LinesDrag ==
    <<Line(0, TRUE, FALSE, {}, Null, <<>>, Null, <<>>),
      Line(1, TRUE, FALSE, {}, Null, <<>>, Null, <<>>)>>

\* a.md holds one task, or the task and a subtask.
DocsDrag == {SubSeq(LinesDrag, 1, 1), LinesDrag}

InitDrag == InitView /\ vault = <<SubSeq(LinesDrag, 1, 1), <<>>>>

NextDrag ==
    \/ scans = <<>> /\ RefreshDataSvg
    \/ scans = <<>> /\ \E doc \in DocsDrag : ModifySvg(1, doc)
    \/ \E k \in DOMAIN scans : ReadResolvesSvg(k)
    \/ \E b \in Buttons, pt \in Points, target \in 0..Len(layout) :
          MouseDownSvg(b, pt, target)
    \/ \E pt \in Points : MouseMoveSvg(pt)
    \/ \E b \in Buttons : MouseUpSvg(b)
    \/ \E i \in DOMAIN layout, p \in Points : Tick(i, p)

SpecDrag == InitDrag /\ [][NextDrag]_vars

(***************************************************************************)
(* SpecCanvas: the canvas view after onOpen, showing up to two nodes laid  *)
(* out anywhere (a coordinate may be NaN), with the mouse and the Fit      *)
(* button.                                                                 *)
(***************************************************************************)
\* - [ ] W #want
LinesCanvas == {Line(0, TRUE, FALSE, {"#want"}, Null, <<>>, Null, <<>>)}

\* The layout fields a node may have; Null is NaN.
LayoutsCanvas ==
    {[x |-> Null, y |-> Null, fx |-> Null, fy |-> Null]} \cup
    {[x |-> Some(p[1]), y |-> Some(p[2]), fx |-> Null, fy |-> Null] :
        p \in {<<0, 0>>, <<10, 10>>, <<0, 50>>, <<100, 50>>, <<2000, 50>>}}

\* The wheel doubles or halves the scale.
WheelFactors == {Num(2), Frac(1, 2)}

InitCanvas ==
    /\ InitView
    /\ vault \in {<<d, <<>>>> : d \in UNION {[1..n -> LinesCanvas] : n \in 0..2}}

\* The state after onOpen over the documents in the vault: the scan has
\* ended and the graph is laid out.
Opened ==
    LET sc  == ScanFrom(1, <<>>, {}, vault, taskLimit)
        out == processTasks(sc.tasks)
    IN  /\ applied = <<>>
        /\ allTags' = sc.tags
        /\ data' = out
        /\ scanned' = sc.tasks
        /\ latestData' = Some(out)
        /\ applied' = <<"process">>
        /\ simulation' = "running"
        /\ layout' \in [DOMAIN out.nodes -> LayoutsCanvas]
        /\ UNCHANGED <<vault, taskLimit, useDates, clock, showCompleted, showBlocked, showWithoutTags,
                       selectedTags, scans, doneLimit, doneLatest, pointer,
                       transform, watch>>

NextCanvas ==
    \/ Opened
    \/ applied # <<>> /\ \E b \in Buttons, pt \in Points : MouseDown(b, pt)
    \/ applied # <<>> /\ \E pt \in Points : MouseMove(pt)
    \/ applied # <<>> /\ \E b \in Buttons : MouseUp(b)
    \/ applied # <<>> /\ FitToView

SpecCanvas == InitCanvas /\ [][NextCanvas]_vars

(***************************************************************************)
(* SpecZoom: the same view with the wheel, turned with the mouse at the    *)
(* origin, and the Fit button.                                             *)
(***************************************************************************)
NextZoom ==
    \/ Opened
    \/ applied # <<>> /\ \E f \in WheelFactors : Wheel(f, <<0, 0>>)
    \/ applied # <<>> /\ FitToView

SpecZoom == InitCanvas /\ [][NextZoom]_vars

(***************************************************************************)
(* SpecWatch: the canvas view from construction to onClose, with the Live  *)
(* update toggle and modify events of the vault at any time.               *)
(***************************************************************************)
\* A document is empty or holds one '#want' task.
DocsWatch == {<<>>} \cup {<<l>> : l \in LinesConc}

InitWatch == InitFields /\ watch = Constructed /\ clock = NoonUtc /\ vault = <<<<>>, <<>>>>

NextWatch ==
    \/ OnOpen
    \/ OnClose
    \/ ToggleLiveUpdate
    \/ \E f \in Files, doc \in DocsWatch : NotifyModify(f, doc)
    \/ NotifyOther
    \/ \E k \in DOMAIN scans : ReadResolves(k)

SpecWatch == InitWatch /\ [][NextWatch]_vars

(***************************************************************************)
(* SpecExtract: onOpen over one line of text, written as a status, a       *)
(* display text and markers in any order.                                  *)
(***************************************************************************)
\* The markers a line may carry, each at most once, with what the line says
\* by it: a tag with its lowercase form, a date with the time value (hours
\* since the epoch) of midnight UTC of its day.
MarkerPool ==
    {[kind |-> "tag", token |-> "#errand", lower |-> "#errand"],
     [kind |-> "tag", token |-> "#Errand", lower |-> "#errand"],
     [kind |-> "id", token |-> "t1"],
     [kind |-> "blocker", token |-> "b1"],
     [kind |-> "blocker", token |-> "b2"],
     [kind |-> "scheduled", token |-> "2024-01-02", hours |-> 473376],
     [kind |-> "start", token |-> "2024-03-01", hours |-> 474792]}

MarkerSeqs ==
    UNION {{s \in [1..n -> MarkerPool] : \A i, j \in 1..n : s[i] = s[j] => i = j} :
              n \in 0..MaxMarkers}

\* What a line is written from: an open 'Buy milk' with any markers
\* after it, and every status, display text and separator with at most one
\* marker.
Components ==
    [status : {" "}, text : {"Buy milk"}, sep : {" "}, markers : MarkerSeqs] \cup
    {c \in [status : {" ", "x"}, text : {"", "Buy milk"}, sep : {" ", "\t"},
            markers : {m \in MarkerSeqs : Len(m) <= 1}] :
        c.text # "" \/ c.markers # <<>>}

\* A marker as it is written in a line.
MarkerText(m) ==
    CASE m.kind = "tag"       -> m.token
      [] m.kind = "id"        -> IdMark \o " " \o m.token
      [] m.kind = "blocker"   -> BlockerMark \o " " \o m.token
      [] m.kind = "scheduled" -> ScheduledMark \o " " \o m.token
      [] m.kind = "start"     -> StartMark \o " " \o m.token

RECURSIVE Join(_, _)
Join(parts, sep) ==
    IF parts = <<>> THEN ""
    ELSE IF Len(parts) = 1 THEN parts[1]
    ELSE parts[1] \o sep \o Join(Tail(parts), sep)

\* '- [<status>] <content>'
Compose(c) ==
    "- [" \o c.status \o "] " \o
    Join((IF c.text = "" THEN <<>> ELSE <<c.text>>) \o
         [i \in DOMAIN c.markers |-> MarkerText(c.markers[i])], c.sep)

\* The lines, each with what it was written from.
Built == {<<Compose(c), c>> : c \in Components}

InitExtract == InitView /\ \E e \in Built : vault = <<<<e[1]>>, <<>>>>

\* onOpen over the text of the documents, to the end of renderGraph.
OpenedText ==
    LET sc  == ScanFrom(1, <<>>, {}, ParseVault(vault), taskLimit)
        out == processTasks(sc.tasks)
    IN  /\ applied = <<>>
        /\ allTags' = sc.tags
        /\ data' = out
        /\ scanned' = sc.tasks
        /\ latestData' = Some(out)
        /\ applied' = <<"process">>
        /\ simulation' = "running"
        /\ layout' = NewLayout(out.nodes)
        /\ UNCHANGED <<vault, taskLimit, useDates, clock, showCompleted, showBlocked, showWithoutTags,
                       selectedTags, scans, doneLimit, doneLatest, pointer,
                       transform, watch>>

NextExtract == OpenedText

SpecExtract == InitExtract /\ [][NextExtract]_vars

(***************************************************************************)
(* SpecLayout: the canvas view rescans an unchanged vault while the force  *)
(* simulation moves the nodes.                                             *)
(***************************************************************************)
InitLayout == InitView /\ vault \in VaultsOver(LinesConc, MaxLines)

NextLayout ==
    \/ scans = <<>> /\ RefreshData
    \/ \E k \in DOMAIN scans : ReadResolves(k)
    \/ \E i \in DOMAIN layout, p \in Points : Tick(i, p)

SpecLayout == InitLayout /\ [][NextLayout]_vars

(***************************************************************************)
(* SpecDates: the SVG view over one document of dated tasks, on machines   *)
(* west of, at and east of UTC, with the 'Use Dates:' toggle.             *)
(***************************************************************************)
\* Tasks without date, and scheduled for or starting on 2024-01-01, -02, -03.
TextsDates ==
    {"- [ ] A", "- [ ] A ~ 2024-01-01", "- [ ] A ~ 2024-01-02", "- [ ] A ~ 2024-01-03",
     "- [ ] A ^ 2024-01-01", "- [ ] A ^ 2024-01-02", "- [ ] A ^ 2024-01-03",
     "- [ ] A ~ 2024-01-01 ^ 2024-01-03", "- [ ] A ~ 2024-01-03 ^ 2024-01-01",
     "- [ ] A ~ 2024-01-02 ^ 2024-01-02"}

\* Noon UTC of 2024-01-02 in New York, London and Tokyo: it is 2024-01-02
\* in all three.
Clocks == {[NoonUtc EXCEPT !.tz = z] : z \in {-5, 0, 9}}

InitDates ==
    /\ InitOpen
    /\ clock \in Clocks
    /\ \E n \in 1..2 : \E texts \in [1..n -> TextsDates] :
          vault = ParseVault(<<texts, <<>>>>)

NextDates ==
    \/ scans = <<>> /\ RefreshDataSvg
    \/ scans = <<>> /\ ToggleUseDatesSvg
    \/ \E k \in DOMAIN scans : ReadResolvesSvg(k)

SpecDates == InitDates /\ [][NextDates]_vars

(***************************************************************************)
(* SpecClose: the canvas view from construction on, with onOpen suspended  *)
(* in its scan, onClose at any time after onOpen was called, and modify    *)
(* events of the vault.                                                    *)
(***************************************************************************)
NextClose ==
    \/ OnOpenStarts
    \/ OnCloseWhileOpening
    \/ OnClose
    \/ \E k \in DOMAIN scans : ReadResolvesOnOpen(k)
    \/ \E k \in DOMAIN scans : ~watch.opening /\ ReadResolves(k)
    \/ \E f \in Files, doc \in DocsWatch : NotifyModify(f, doc)

SpecClose == InitWatch /\ [][NextClose]_vars

(***************************************************************************)
(* The tree property of a scanned task list.                               *)
(***************************************************************************)
\* The ids one parent step above the tasks whose id is in S.
ParentIds(tasks, S) ==
    {tasks[i].parent[1] :
       i \in {j \in DOMAIN tasks : tasks[j].id \in S /\ tasks[j].parent # Null}}

\* The ids reached from id by following parent ids upward, one step or more.
RECURSIVE UpFrom(_, _, _)
UpFrom(tasks, S, n) ==
    IF n = 0 THEN {} ELSE ParentIds(tasks, S) \cup UpFrom(tasks, ParentIds(tasks, S), n - 1)

AncestorIds(tasks, id) == UpFrom(tasks, {id}, Len(tasks))

IdsDistinct(tasks) ==
    \A i, j \in DOMAIN tasks : i # j => tasks[i].id # tasks[j].id

TreeProperty(tasks) ==
    \A i \in DOMAIN tasks :
       LET t == tasks[i]
       IN  /\ t.parent = Null => t.depth = 0
           /\ t.parent # Null =>
                \E j \in DOMAIN tasks :
                   tasks[j].id = t.parent[1] /\ tasks[j].depth = t.depth - 1
           /\ t.id \notin AncestorIds(tasks, t.id)

\* C1: after any scan, a task without parent has depth 0, a task with a parent
\* has a task of that id one level above it, and following parent ids upward
\* from a task never returns to that task.
C1_TreeAfterScan == TreeProperty(scanned)

\* C1 holds of every scan whose ids are pairwise distinct: it fails through
\* C7 alone.
C1_TreeWhenIdsDistinct == IdsDistinct(scanned) => TreeProperty(scanned)

\* C7: within one scan all task ids are pairwise distinct, whatever the
\* documents and their id markers.
C7_IdsDistinct == IdsDistinct(scanned)

(***************************************************************************)
(* Policy B (canvas view).                                                 *)
(***************************************************************************)
NodeIds(d) == {d.nodes[i].id : i \in DOMAIN d.nodes}
TaskIds(tasks) == {tasks[i].id : i \in DOMAIN tasks}
NodeSet(d) == {d.nodes[i] : i \in DOMAIN d.nodes}

LinkEndsAreNodes(d) ==
    \A k \in DOMAIN d.links :
       d.links[k].source \in NodeIds(d) /\ d.links[k].target \in NodeIds(d)

\* The checklist lines of the vault.
CheckLines(v) == {<<f, i>> \in Files \X (1..MaxLines) : i <= Len(v[f]) /\ v[f][i].check}

\* C2: every link stored by processTasks of the canvas view has its source id
\* and its target id among the stored nodes, and the nodes are tasks the scan
\* collected: a blocker id of no task and a task beyond the task limit are
\* never the end of a link.
C2_LinkEndsAreNodesB ==
    LinkEndsAreNodes(data) /\ NodeIds(data) \subseteq TaskIds(scanned)

\* C2 witness: a scan was cut by the task limit, a node has a blocker id that
\* is no task's id, and both a hierarchy and a dependency link are stored.
C2_Witness ==
    /\ scans = <<>>
    /\ Len(scanned) = taskLimit /\ Cardinality(CheckLines(vault)) > taskLimit
    /\ \E i \in DOMAIN data.nodes : \E k \in DOMAIN data.nodes[i].blockers :
          data.nodes[i].blockers[k] \notin TaskIds(scanned)
    /\ \E k \in DOMAIN data.links : data.links[k].type = "hierarchy"
    /\ \E k \in DOMAIN data.links : data.links[k].type = "dependency"

\* The links written on the task's own line.
OwnLinks(t) == vault[t.file][t.line + 1].links

\* The task itself references the block id of a '#want' task.
RefersToPinned(t, tasks) ==
    \E k \in DOMAIN OwnLinks(t) : Slice1(OwnLinks(t)[k]) \in wantTaskBlockIds(tasks)

\* C6: a task is a node iff it carries '#want' or itself references, through
\* a link of its own, the block id of a '#want' task; a task that shares a
\* document with such a link, or references a referrer, is not a node.
C6_PinnedAndOwnReferrers ==
    NodeSet(data) =
       {NodeOf(scanned[i]) : i \in {j \in DOMAIN scanned :
                              \/ "#want" \in scanned[j].tags
                              \/ RefersToPinned(scanned[j], scanned)}}

\* C8: with no scan in flight, Show completed off leaves no completed task
\* among the nodes and Show blocked off leaves no task with blockers.
C8_CheckboxesFilter ==
    scans = <<>> =>
       /\ ~showCompleted => \A i \in DOMAIN data.nodes : ~data.nodes[i].completed
       /\ ~showBlocked => \A i \in DOMAIN data.nodes : data.nodes[i].blockers = <<>>

(***************************************************************************)
(* Overlapping scans and the task limit.                                   *)
(***************************************************************************)
\* C4: once no scan is in flight, the data model holds the result of the scan
\* that started last; an earlier scan that ends later does not overwrite it.
C4_NewestScanWins ==
    (scans = <<>> /\ latestData # Null) => data = latestData[1]

\* C10: a completed scan collected at most this.taskLimit tasks, none when the
\* limit is 0 or negative, also when the limit changed while it was in flight.
C10_WithinLimit ==
    Len(scanned) <= (IF doneLimit > 0 THEN doneLimit ELSE 0)

\* C10 holds of every scan that is still the newest when it ends (a change of
\* the limit starts a scan): it fails through C4 alone, by a stale scan.
C10_NewestWithinLimit == doneLatest => C10_WithinLimit

(***************************************************************************)
(* Policy A (SVG view).                                                    *)
(***************************************************************************)
\* No tag filter is active.
NoTagFilter == selectedTags = {} /\ ~showWithoutTags

VisibleA(t) ==
    /\ showCompleted \/ ~t.completed
    /\ showBlocked \/ t.blockers = <<>>
    /\ IF selectedTags = {} /\ ~showWithoutTags THEN TRUE
       ELSE (t.tags \cap selectedTags # {}) \/ (showWithoutTags /\ t.tags = {})

\* C5: the nodes emitted by processTasks of the SVG view are exactly the
\* scanned tasks that are visible (completed / blocked / tag predicate),
\* whether or not their parent is emitted.
C5_NodesAreVisibleTasks ==
    scans = <<>> =>
       NodeSet(data) = {NodeOf(scanned[i]) :
                          i \in {j \in DOMAIN scanned : VisibleA(scanned[j])}}

\* C5 witness: a tag is selected, a task is emitted whose parent is not.
C5_Witness ==
    /\ scans = <<>> /\ selectedTags # {}
    /\ \E i \in DOMAIN data.nodes :
          /\ data.nodes[i].parent # Null
          /\ data.nodes[i].parent[1] \notin NodeIds(data)

Pinned(i) == layout[i].fx # Null \/ layout[i].fy # Null

\* A node of data.nodes is pinned exactly while a drag on it is in progress.
PinnedOnlyWhileDragged ==
    \A i \in DOMAIN layout :
       /\ Pinned(i) => pointer.drag = Some(i)
       /\ pointer.drag = Some(i) => layout[i].fx # Null /\ layout[i].fy # Null

\* A drag start pins the node where it is, and while a node is pinned its
\* position changes only to its pin.
PinRules ==
    \A i \in DOMAIN layout :
       /\ (pointer.drag = Null /\ pointer'.drag = Some(i)) =>
             layout'[i].fx = layout[i].x /\ layout'[i].fy = layout[i].y
       /\ (Pinned(i) /\ pointer'.drag = pointer.drag
             /\ <<layout'[i].x, layout'[i].y>> # <<layout[i].x, layout[i].y>>) =>
             layout'[i].x = layout[i].fx /\ layout'[i].y = layout[i].fy

\* C11: a drag start sets the node's pin (fx, fy) to its position, a drag
\* motion moves the pin, after the drag end fx and fy are null; a node has a
\* pin only while a drag on it is in progress, and the simulation tick never
\* moves a pinned node anywhere but onto its pin.
C11_DragLifecycle == []PinnedOnlyWhileDragged /\ [][PinRules]_vars

\* C11 witness: a drag in progress has moved the pin of one node, the tick
\* has put the node on it, and another node is not pinned.
C11_Witness ==
    /\ Len(layout) = 2
    /\ \E i \in DOMAIN layout :
          /\ pointer.drag = Some(i)
          /\ layout[i].fx = Some(40) /\ layout[i].x = Some(40)
          /\ \E j \in DOMAIN layout : j # i /\ ~Pinned(j)

\* C12 (as claimed): a primary-button press never starts a pan, and a pan and
\* a node drag are never in progress at the same time.
C12_PrimaryNeverPans ==
    /\ pointer.pan # Null => pointer.pan[1].button # 0
    /\ ~(pointer.pan # Null /\ pointer.drag # Null)

\* The screen position of node d under the transform t is within the
\* viewport less the margin m (a fraction of its width and height) on each
\* side; a NaN coordinate is nowhere.
OnScreen(t, d, m) ==
    /\ d.x # Null /\ d.y # Null
    /\ LET sx == Plus(t.x, Times(t.k, Num(d.x[1])))
           sy == Plus(t.y, Times(t.k, Num(d.y[1])))
       IN  /\ Leq(Times(m, Num(ViewW)), sx)
           /\ Leq(sx, Times(Minus(Num(1), m), Num(ViewW)))
           /\ Leq(Times(m, Num(ViewH)), sy)
           /\ Leq(sy, Times(Minus(Num(1), m), Num(ViewH)))

\* fitToView returns early: no node, no finite x or y, or a bounding box of
\* zero width or height.
Degenerate(l) ==
    \/ Len(l) = 0
    \/ FiniteXs(l) = {} \/ FiniteYs(l) = {}
    \/ MaxOf(FiniteXs(l)) = MinOf(FiniteXs(l))
    \/ MaxOf(FiniteYs(l)) = MinOf(FiniteYs(l))

AllFinite(l) == \A i \in DOMAIN l : l[i].x # Null /\ l[i].y # Null

\* C13 (as claimed): after fitToView on a graph with at least one node every
\* node's transformed position lies inside the viewport.
C13_FitShowsEveryNode ==
    Len(layout) >= 1 =>
       \A i \in DOMAIN layout :
          OnScreen(fitToView(layout, transform), layout[i], Num(0))

\* C13 amended: after fitToView on nodes with finite coordinates whose
\* bounding box has a width and a height, every node's transformed position
\* lies inside the viewport, 7.5% of its size away from each edge.
C13_FitShowsEveryNodeOfABox ==
    (AllFinite(layout) /\ ~Degenerate(layout)) =>
       \A i \in DOMAIN layout :
          OnScreen(fitToView(layout, transform), layout[i], Frac(15, 200))

\* C13 witness: Fit was pressed on two nodes spanning a box, and the view
\* is as Fit left it, scaled.
C13_Witness ==
    /\ applied = <<"fit">>
    /\ Len(layout) = 2 /\ AllFinite(layout) /\ ~Degenerate(layout)
    /\ transform = fitToView(layout, transform)
    /\ transform.k # Num(1)

\* C14: fitToView leaves the view transform as it is, without error, when
\* there is no node, when no node has a finite x or y, and when the bounding
\* box of the positions has zero width or zero height.
C14_DegenerateFitIsNoOp ==
    Degenerate(layout) => fitToView(layout, transform) = transform

\* C14 witness: Fit was pressed on a panned view whose nodes are on one
\* vertical line (or are one node), and the view is still panned.
C14_Witness ==
    /\ applied = <<"fit">>
    /\ Len(layout) >= 1 /\ AllFinite(layout) /\ Degenerate(layout)
    /\ transform # Identity

\* C15 (as claimed): the scale of the view transform is within [0.1, 5].
C15_ScaleInExtent ==
    Leq(ScaleExtent[1], transform.k) /\ Leq(transform.k, ScaleExtent[2])

(***************************************************************************)
(* Live update.                                                            *)
(***************************************************************************)
\* C16: while the view is open (onOpen done, onClose not yet called) exactly
\* one 'modify' subscription is active when Live update is on and none when
\* it is off, and a modify event for a markdown document received then has
\* started exactly one rescan if Live update was on and none if it was off;
\* an event for another file starts none.
C16_OneSubscriptionWhileLive ==
    /\ watch.stage = "open" =>
          watch.subscriptions = (IF watch.liveUpdate THEN 1 ELSE 0)
    /\ (watch.last # Null /\ watch.last[1].stage = "open") =>
          watch.last[1].started =
             (IF watch.last[1].md /\ watch.last[1].live THEN 1 ELSE 0)

\* C16 witness: Live update was switched off and on again, and the modify
\* event of a markdown document after that started one rescan, in flight.
C16_Witness ==
    /\ watch.stage = "open" /\ watch.liveUpdate /\ watch.subscribed
    /\ watch.last # Null /\ watch.last[1].md /\ watch.last[1].started = 1
    /\ Len(scans) = 2
    /\ \E k \in DOMAIN scans : ~scans[k].latest

(***************************************************************************)
(* C17                                                                     *)
(***************************************************************************)
OfKind(c, k) == SelectSeq(c.markers, LAMBDA m : m.kind = k)

\* What a line written from c is said to give.
StatedTask(c, t) ==
    /\ t.completed = (c.status # " ")
    /\ t.tags = {OfKind(c, "tag")[i].lower : i \in DOMAIN OfKind(c, "tag")}
    /\ OfKind(c, "id") # <<>> => t.id = OfKind(c, "id")[1].token
    /\ t.blockers = [i \in DOMAIN OfKind(c, "blocker") |-> OfKind(c, "blocker")[i].token]
    /\ t.scheduled = IF OfKind(c, "scheduled") = <<>> THEN Null
                     ELSE Some(Some(OfKind(c, "scheduled")[1].hours))
    /\ t.start = IF OfKind(c, "start") = <<>> THEN Null
                 ELSE Some(Some(OfKind(c, "start")[1].hours))
    /\ t.text = c.text

\* The lines that differ from c in the order of the markers alone.
Reordered(c) ==
    {[c EXCEPT !.markers = [i \in DOMAIN c.markers |-> c.markers[p[i]]]] :
        p \in Permutations(DOMAIN c.markers)}

Range(s) == {s[i] : i \in DOMAIN s}

\* C17: a checklist line written as a status, a display text and markers
\* separated by whitespace, in any order, gives one task with completed iff
\* the status is not a space, the lowercased tags without duplicates, the
\* payloads of the id, blocker and date markers, and the display text; the
\* same line with its markers in another order gives the same fields.
C17_ExtractionAsStated ==
    applied # <<>> =>
        \A e \in Built :
            e[1] = vault[1][1] =>
                /\ Len(scanned) = 1
                /\ StatedTask(e[2], scanned[1])
                /\ \A d \in Reordered(e[2]) :
                      LET p == ParseLine(Compose(d))
                          t == scanned[1]
                      IN  /\ p.check
                          /\ p.completed = t.completed /\ p.tags = t.tags
                          /\ (p.id = Null) = (OfKind(d, "id") = <<>>)
                          /\ p.id # Null => p.id[1] = t.id
                          /\ Range(p.blockers) = Range(t.blockers)
                          /\ p.scheduled = t.scheduled /\ p.start = t.start
                          /\ p.text = t.text

\* '- [ ] Buy milk #errand <id emoji> t1' was read.
C17_Witness ==
    /\ applied # <<>>
    /\ vault[1][1] = "- [ ] Buy milk #errand @ t1"
    /\ Len(scanned) = 1
    /\ scanned[1].completed = FALSE
    /\ scanned[1].text = "Buy milk"
    /\ scanned[1].tags = {"#errand"}
    /\ scanned[1].id = "t1"

(***************************************************************************)
(* C18                                                                     *)
(***************************************************************************)
\* The checklist lines of doc before line i (1-based) that are indented
\* less than line i.
Shallower(doc, i) == {j \in 1..(i - 1) : doc[j].check /\ doc[j].indent < doc[i].indent}

\* The task collected from line j (1-based) of file f.
TaskOfLine(f, j) == CHOOSE k \in DOMAIN scanned : scanned[k].file = f /\ scanned[k].line = j - 1

\* C18: the parent of every collected task is the task of the nearest
\* preceding checklist line of its own document that is indented strictly
\* less, with depth one more than that task's; a task with no such line is a
\* root of depth 0.  Lines that are no checklist lines count for nothing.
C18_ParentIsNearestShallower ==
    \A k \in DOMAIN scanned :
       LET t == scanned[k]
           S == Shallower(vault[t.file], t.line + 1)
       IN  IF S = {}
           THEN t.parent = Null /\ t.depth = 0
           ELSE LET p == TaskOfLine(t.file, MaxOf(S))
                IN  /\ scanned[p].file = t.file /\ scanned[p].line = MaxOf(S) - 1
                    /\ t.parent = Some(scanned[p].id)
                    /\ t.depth = scanned[p].depth + 1
                    /\ k \in {scanned[p].children[c] : c \in DOMAIN scanned[p].children}

\* A task was attached to the task two lines above it, across a line that
\* is no checklist line.
C18_Witness ==
    \E k \in DOMAIN scanned :
       /\ scanned[k].line = 2
       /\ ~vault[scanned[k].file][2].check
       /\ vault[scanned[k].file][1].check
       /\ scanned[k].parent = Some(scanned[TaskOfLine(scanned[k].file, 1)].id)
       /\ scanned[k].depth = 1

(***************************************************************************)
(* C19                                                                     *)
(***************************************************************************)
\* A scan ends in this step: processTasks replaces this.data and updateGraph
\* hands the new nodes to the simulation.
UpdateStep == Len(scans') < Len(scans)

\* C19: when a refresh ends, every node whose id was the id of a node before
\* it has the position that node had right before it.
C19_PositionsRetained ==
    [][UpdateStep =>
         \A i \in DOMAIN data.nodes, j \in DOMAIN data'.nodes :
            data.nodes[i].id = data'.nodes[j].id =>
               layout'[j].x = layout[i].x /\ layout'[j].y = layout[i].y]_vars

(***************************************************************************)
(* C20                                                                     *)
(***************************************************************************)
\* The day a Date made from a marker names, and the day it is on the
\* machine, as day numbers.
DayOf(date) == date[1][1] \div 24
Today == (clock.now + clock.tz) \div 24

\* The band a node is said to be pulled to.
StatedBand(d) ==
    LET date == IF d.start # Null THEN d.start ELSE d.scheduled
    IN  IF ~useDates \/ date = Null THEN midX
        ELSE IF DayOf(date) < Today THEN leftX
        ELSE IF DayOf(date) > Today THEN rightX
        ELSE midX

\* The graph on screen was built under the filters and the date mode as they
\* are now.
Rendered == scans = <<>> /\ applied # <<>>

\* C20: in date mode a node is pulled to the left band when the day of its
\* date (start, else scheduled) is before today, to the right band when it
\* is after today, and to the centre band when it is today or the node has
\* no date; with date mode off every node is pulled to the centre band.
C20_BandByDay ==
    Rendered => \A i \in DOMAIN data.nodes : layout[i].target = StatedBand(data.nodes[i])

\* C20 holds on every machine whose local time is not behind UTC.
C20_BandByDayEastOfUtc == clock.tz >= 0 => C20_BandByDay

(***************************************************************************)
(* C21                                                                     *)
(***************************************************************************)
\* The tags of the tasks of the scan whose result is in this.data.
TagsOfScanned == UNION {scanned[i].tags : i \in DOMAIN scanned}

\* The read of a document resolves in this step and its lines are scanned.
DocumentScanned ==
    \/ Len(scans') < Len(scans)
    \/ \E k \in DOMAIN scans : k \in DOMAIN scans' /\ scans'[k].file > scans[k].file

\* C21: whenever no scan is in flight, allTags is the set of the tags of the
\* tasks collected by the scan whose result is in this.data, and allTags
\* changes only in a step in which the scan of a document completes.
C21_TagsOfTheScanInData ==
    /\ [](scans = <<>> => allTags = TagsOfScanned)
    /\ [][allTags' # allTags => DocumentScanned]_vars

(***************************************************************************)
(* C22                                                                     *)
(***************************************************************************)
\* C22: once onClose has run, the vault has no 'modify' subscription of the
\* view and the layout simulation is not running, in every later state.
C22_QuietAfterClose ==
    watch.stage = "closed" => watch.subscriptions = 0 /\ simulation # "running"

====
